---------------------------- MODULE Spec2Model ----------------------------
(***************************************************************************)
(* Model of the Odoo configuration generator (src/odoo_setup_generator.js). *)
(*                                                                         *)
(* Strings are sequences of one-character strings, so that trim, regular   *)
(* expression matches, includes and toLowerCase are computed character by   *)
(* character as the JavaScript does.  Paths are sequences of path tokens    *)
(* ("nginx/", "ssl/", "nginx.conf"); string concatenation is \o.            *)
(***************************************************************************)
EXTENDS Integers, Sequences, FiniteSets, TLC

VARIABLES
    currentStep,     \* this.currentStep
    config,          \* this.config
    touched,         \* the form (DOM): field groups whose value may differ from config
    generatedFiles,  \* this.generatedFiles: None or Some(path -> text)
    zipStructure,    \* this.zipStructure: None or Some([root, folders])
    dockerCommands,  \* #dockerCommands (and #reviewContent, written with it): None or Some(preview)
    toast,           \* showToast of the last step: None or Some([message, type])
    lastOp,          \* the handler the last step ran, and its branch
    JSZip,           \* window.JSZip is defined
    downloads,       \* the downloadAsZip calls in flight
    emitted,         \* None, or Some(archive) when the last step handed out a download
    passwordCalls,   \* the calls of generateSecurePassword the last step made
    arg,             \* input of the function under test (function-level specifications)
    ret              \* None or Some(result) of the function under test

vars == <<currentStep, config, touched, generatedFiles, zipStructure, dockerCommands,
          toast, lastOp, JSZip, downloads, emitted, passwordCalls, arg, ret>>

wizardVars == <<currentStep, config, touched, generatedFiles, zipStructure,
                dockerCommands, toast, lastOp, JSZip, downloads, emitted, passwordCalls>>

None == <<>>
Some(x) == <<x>>

Range(s) == {s[i] : i \in 1..Len(s)}

Max(a, b) == IF a >= b THEN a ELSE b

(***************************************************************************)
(* Characters and strings                                                  *)
(***************************************************************************)
LowerLetters == <<"a", "b", "c", "d", "e", "f", "g", "h", "i", "j", "k", "l", "m",
                  "n", "o", "p", "q", "r", "s", "t", "u", "v", "w", "x", "y", "z">>
UpperLetters == <<"A", "B", "C", "D", "E", "F", "G", "H", "I", "J", "K", "L", "M",
                  "N", "O", "P", "Q", "R", "S", "T", "U", "V", "W", "X", "Y", "Z">>
Digits == <<"0", "1", "2", "3", "4", "5", "6", "7", "8", "9">>

Lower == Range(LowerLetters)
Upper == Range(UpperLetters)
Digit == Range(Digits)
Alpha == Lower \cup Upper
\* the characters String.prototype.trim strips (space, tab; line breaks cannot
\* occur in a single-line input)
WhiteSpace == {" ", "\t"}

\* String.prototype.toLowerCase, one character
toLowerChar(c) ==
    IF c \in Upper
    THEN LowerLetters[CHOOSE i \in 1..Len(UpperLetters) : UpperLetters[i] = c]
    ELSE c

toLowerCase(s) == [i \in 1..Len(s) |-> toLowerChar(s[i])]

\* String.prototype.trim
RECURSIVE trimStart(_)
trimStart(s) ==
    IF s # <<>> /\ Head(s) \in WhiteSpace THEN trimStart(Tail(s)) ELSE s

RECURSIVE trimEnd(_)
trimEnd(s) ==
    IF s # <<>> /\ s[Len(s)] \in WhiteSpace THEN trimEnd(SubSeq(s, 1, Len(s) - 1)) ELSE s

trim(s) == trimEnd(trimStart(s))

\* String.prototype.includes
includes(s, sub) ==
    \E i \in 1..(Len(s) - Len(sub) + 1) : SubSeq(s, i, i + Len(sub) - 1) = sub

\* the positions of character c in s
Positions(s, c) == {i \in 1..Len(s) : s[i] = c}

AllIn(s, class) == \A i \in 1..Len(s) : s[i] \in class

\* Number -> decimal text, as template interpolation `${n}` does (n >= 0)
RECURSIVE numberToString(_)
numberToString(n) ==
    IF n < 0 THEN <<"-">> \o numberToString(0 - n)
    ELSE IF n < 10 THEN <<Digits[n + 1]>>
    ELSE numberToString(n \div 10) \o <<Digits[(n % 10) + 1]>>

(***************************************************************************)
(* The regular expressions of validateForm                                 *)
(***************************************************************************)
\* /^[a-z0-9][a-z0-9-]*[a-z0-9]$/
matchProjectName(s) ==
    /\ Len(s) >= 2
    /\ s[1] \in Lower \cup Digit
    /\ s[Len(s)] \in Lower \cup Digit
    /\ AllIn(s, Lower \cup Digit \cup {"-"})

\* /^[a-zA-Z0-9][a-zA-Z0-9-]{1,61}[a-zA-Z0-9]\.[a-zA-Z]{2,}$/
matchDomain(s) ==
    \E d \in Positions(s, ".") :
        LET label == SubSeq(s, 1, d - 1)
            tld   == SubSeq(s, d + 1, Len(s))
        IN  /\ Len(label) >= 3
            /\ Len(label) <= 63
            /\ label[1] \in Alpha \cup Digit
            /\ label[Len(label)] \in Alpha \cup Digit
            /\ AllIn(label, Alpha \cup Digit \cup {"-"})
            /\ Len(tld) >= 2
            /\ AllIn(tld, Alpha)

\* /^\d+$/
matchDigits(s) == s # <<>> /\ AllIn(s, Digit)

\* /^\d+\.\d+\.\d+\.\d+$/
matchIPv4(s) ==
    \E a, b, c \in Positions(s, ".") :
        /\ a < b
        /\ b < c
        /\ matchDigits(SubSeq(s, 1, a - 1))
        /\ matchDigits(SubSeq(s, a + 1, b - 1))
        /\ matchDigits(SubSeq(s, b + 1, c - 1))
        /\ matchDigits(SubSeq(s, c + 1, Len(s)))

(***************************************************************************)
(* validateForm                                                            *)
(***************************************************************************)
MinPort == 1024
MaxPort == 65535
MinPasswordLength == 12
DefaultPasswordLength == 24

reservedWords ==
    { <<"d", "o", "c", "k", "e", "r">>,
      <<"c", "o", "m", "p", "o", "s", "e">>,
      <<"p", "o", "s", "t", "g", "r", "e", "s">>,
      <<"r", "e", "d", "i", "s">>,
      <<"n", "g", "i", "n", "x">>,
      <<"l", "o", "c", "a", "l", "h", "o", "s", "t">>,
      <<"a", "p", "i">>,
      <<"w", "w", "w">> }

commonPorts == {3306, 5432, 6379, 22, 80, 443, 21, 25, 53, 110, 143, 993, 995}

\* an error message: its fixed text and the interpolated value, if any
Msg(text, value) == [text |-> text, value |-> value]

MsgProjectNameRequired == Msg("Nome do projeto e obrigatorio", <<>>)
MsgDbPasswordRequired  == Msg("Senha do banco e obrigatoria", <<>>)
MsgAdminPasswordRequired == Msg("Senha master e obrigatoria", <<>>)
MsgProjectNamePattern  == Msg("Nome do projeto deve conter apenas letras minusculas, numeros e hifens", <<>>)
MsgReserved(name)      == Msg("e uma palavra reservada. Escolha outro nome.", name)
MsgHttpPortRange       == Msg("Porta HTTP deve estar entre 1024 e 65535", <<>>)
MsgChatPortRange       == Msg("Porta Chat deve estar entre 1024 e 65535", <<>>)
MsgPortsEqual          == Msg("Portas HTTP e Chat nao podem ser iguais", <<>>)
MsgCommonPort(port)    == Msg("e comumente usada por outros servicos. Escolha outra porta.", numberToString(port))
MsgDomainFormat        == Msg("Formato de dominio invalido (ex: meusite.com.br)", <<>>)
MsgDomainLocal         == Msg("Use um dominio real ou deixe em branco para desenvolvimento local", <<>>)
MsgDbPasswordLength    == Msg("Senha do banco deve ter pelo menos 12 caracteres", <<>>)
MsgAdminPasswordLength == Msg("Senha master deve ter pelo menos 12 caracteres", <<>>)
MsgPasswordSpaces      == Msg("Senhas nao podem conter espacos em branco", <<>>)
MsgPasswordDigits      == Msg("Senhas nao podem ser apenas numeros", <<>>)
MsgWorkers             == Msg("Se usar workers, configure pelo menos 2. Use 0 apenas para desenvolvimento.", <<>>)

\* !value || value.trim() === ''
isMissing(value) == value = <<>> \/ trim(value) = <<>>

\* errors.push(msg) when cond
pushIf(errors, cond, msg) == IF cond THEN Append(errors, msg) ELSE errors

\* criticalErrors without the early returns: every missing field is pushed
criticalErrorsNoReturn(c) ==
    pushIf(pushIf(pushIf(<<>>, isMissing(c.projectName), MsgProjectNameRequired),
                  isMissing(c.dbPassword), MsgDbPasswordRequired),
           isMissing(c.adminPassword), MsgAdminPasswordRequired)

\* lines 62-77: the first missing critical field, and nothing else
criticalErrors(c) ==
    IF isMissing(c.projectName) THEN <<MsgProjectNameRequired>>
    ELSE IF isMissing(c.dbPassword) THEN <<MsgDbPasswordRequired>>
    ELSE IF isMissing(c.adminPassword) THEN <<MsgAdminPasswordRequired>>
    ELSE <<>>

\* lines 79-90
formatErrors(c, errors) ==
    LET e1 == pushIf(errors,
                     ~matchProjectName(c.projectName) /\ Len(c.projectName) > 1,
                     MsgProjectNamePattern)
    IN  pushIf(e1, toLowerCase(c.projectName) \in reservedWords, MsgReserved(c.projectName))

\* lines 92-114
networkErrors(c, errors) ==
    LET e1 == pushIf(errors, c.httpPort < MinPort \/ c.httpPort > MaxPort, MsgHttpPortRange)
        e2 == pushIf(e1, c.chatPort < MinPort \/ c.chatPort > MaxPort, MsgChatPortRange)
        e3 == pushIf(e2, c.httpPort = c.chatPort, MsgPortsEqual)
        e4 == pushIf(e3, c.httpPort \in commonPorts, MsgCommonPort(c.httpPort))
    IN  pushIf(e4, c.chatPort \in commonPorts, MsgCommonPort(c.chatPort))

\* lines 116-128
domainErrors(c, errors) ==
    IF c.domain # <<>> /\ trim(c.domain) # <<>>
    THEN LET e1 == pushIf(errors, ~matchDomain(c.domain), MsgDomainFormat)
         IN  pushIf(e1,
                    \/ includes(toLowerCase(c.domain), <<"l", "o", "c", "a", "l", "h", "o", "s", "t">>)
                    \/ matchIPv4(c.domain),
                    MsgDomainLocal)
    ELSE errors

\* lines 130-147
securityErrors(c, errors) ==
    LET e1 == pushIf(errors, Len(c.dbPassword) < MinPasswordLength, MsgDbPasswordLength)
        e2 == pushIf(e1, Len(c.adminPassword) < MinPasswordLength, MsgAdminPasswordLength)
        e3 == pushIf(e2,
                     includes(c.dbPassword, <<" ">>) \/ includes(c.adminPassword, <<" ">>),
                     MsgPasswordSpaces)
    IN  pushIf(e3, matchDigits(c.dbPassword) \/ matchDigits(c.adminPassword), MsgPasswordDigits)

\* resourceErrors with `config.workers < 2` alone: 0 is flagged too
resourceErrorsFlagsZero(c, errors) ==
    pushIf(errors, c.workers < 2, MsgWorkers)

\* lines 149-153
resourceErrors(c, errors) ==
    pushIf(errors, c.workers > 0 /\ c.workers < 2, MsgWorkers)

validateForm(c) ==
    IF criticalErrors(c) # <<>>
    THEN criticalErrors(c)
    ELSE resourceErrors(c,
           securityErrors(c,
             domainErrors(c,
               networkErrors(c,
                 formatErrors(c, <<>>)))))


(***************************************************************************)
(* generateSecurePassword                                                  *)
(***************************************************************************)
charset ==
    <<"A", "B", "C", "D", "E", "F", "G", "H", "I", "J", "K", "L", "M", "N", "O", "P",
      "Q", "R", "S", "T", "U", "V", "W", "X", "Y", "Z", "a", "b", "c", "d", "e", "f",
      "g", "h", "i", "j", "k", "l", "m", "n", "o", "p", "q", "r", "s", "t", "u", "v",
      "w", "x", "y", "z", "0", "1", "2", "3", "4", "5", "6", "7", "8", "9", "!", "@",
      "#", "$", "%", "^", "&", "*">>

\* cryptoPassword without the modulo: charset[byte] is undefined from 70 on,
\* and join('') writes nothing for it
cryptoPasswordNoModulo(length, bytes) ==
    SelectSeq([i \in 1..length |->
                  IF bytes[i] < Len(charset) THEN charset[bytes[i] + 1] ELSE ""],
              LAMBDA ch : ch # "")

\* lines 39-43: one character per random byte
cryptoPassword(length, bytes) ==
    [i \in 1..length |-> charset[(bytes[i] % Len(charset)) + 1]]

\* fallbackPassword with the loop running to i <= length
fallbackPasswordOffByOne(length, indexes) ==
    [i \in 1..(length + 1) |-> charset[indexes[((i - 1) % length) + 1] + 1]]

\* lines 47-51: one character per Math.floor(Math.random() * charset.length)
fallbackPassword(length, indexes) ==
    [i \in 1..length |-> charset[indexes[i] + 1]]

\* what the random source hands out: each sampled value, repeated
ByteSamples == {0}
IndexSamples == {0}

RandomBytes(length) == {[i \in 1..length |-> b] : b \in ByteSamples}
RandomIndexes(length) == {[i \in 1..length |-> x] : x \in IndexSamples}

\* the passwords generateSecurePassword(length) can return, crypto API or not
generateSecurePassword(length) ==
    {cryptoPassword(length, bytes) : bytes \in RandomBytes(length)}
        \cup {fallbackPassword(length, ix) : ix \in RandomIndexes(length)}

\* generateSecurePassword, lines 34-52, given whether window.crypto exists and
\* what the random source hands out (bytes, or indexes into the charset);
\* warned: console.warn was called (line 46)
generateSecurePasswordWith(length, crypto, random) ==
    IF crypto
    THEN [password |-> cryptoPassword(length, random), warned |-> FALSE]
    ELSE [password |-> fallbackPassword(length, random), warned |-> TRUE]

(***************************************************************************)
(* The renderers: each text is the record of the values its template        *)
(* interpolates, conditional blocks included                               *)
(***************************************************************************)
localhost == <<"l", "o", "c", "a", "l", "h", "o", "s", "t">>

\* `${config.domain || 'localhost'}`
domainOrLocalhost(c) == IF c.domain = <<>> THEN localhost ELSE c.domain

\* `${flag}` of a boolean
booleanToString(b) == IF b THEN <<"true">> ELSE <<"false">>

\* n * 1024 * 1024 * 1024 as decimal text (n >= 0), computed in two limbs of
\* six decimal digits: 1024^3 = 1073 * 10^6 + 741824
gigabytes(n) ==
    LET low  == n * 741824
        high == n * 1073 + (low \div 1000000)
        rest == numberToString(1000000 + (low % 1000000))
    IN  IF high = 0 THEN numberToString(low)
        ELSE numberToString(high) \o SubSeq(rest, 2, 7)

\* Math.round(n * 0.8) in the place of Math.floor
floor80Rounded(n) == (n * 4 + 2) \div 5

\* Math.floor(n * 0.8)
floor80(n) == (n * 4) \div 5

generateDockerCompose(c) ==
    [ projectName       |-> c.projectName,
      postgresPorts     |-> c.enablePostgresPort,
      httpPortMapping   |-> <<numberToString(c.httpPort), ":8069">>,
      chatPortMapping   |-> <<numberToString(c.chatPort), ":8072">>,
      memoryLimit       |-> numberToString(c.memoryLimit) \o <<"G">>,
      memoryReservation |-> numberToString(Max(1, c.memoryLimit - 1)) \o <<"G">>,
      redisService      |-> c.enableRedis,
      nginxService      |-> c.enableNginx,
      redisVolume       |-> c.enableRedis ]

generateEnvFile(c) ==
    [ projectName         |-> c.projectName,
      POSTGRES_DB         |-> c.dbName,
      POSTGRES_USER       |-> c.dbUser,
      POSTGRES_PASSWORD   |-> c.dbPassword,
      ODOO_VERSION        |-> c.odooVersion,
      ODOO_ADMIN_PASSWORD |-> c.adminPassword,
      HTTP_PORT           |-> numberToString(c.httpPort),
      CHAT_PORT           |-> numberToString(c.chatPort),
      ENV_DOMAIN          |-> domainOrLocalhost(c),
      WORKERS             |-> numberToString(c.workers),
      MEMORY_LIMIT        |-> numberToString(c.memoryLimit),
      LOG_LEVEL           |-> c.logLevel,
      ENABLE_REDIS        |-> booleanToString(c.enableRedis),
      ENABLE_NGINX        |-> booleanToString(c.enableNginx) ]

generateOdooConf(c) ==
    [ projectName       |-> c.projectName,
      db_user           |-> c.dbUser,
      db_password       |-> c.dbPassword,
      db_name           |-> c.dbName,
      workers           |-> numberToString(c.workers),
      max_cron_threads  |-> numberToString(c.cronThreads),
      admin_passwd      |-> c.adminPassword,
      db_filter         |-> <<"^">> \o c.dbName \o <<"$">>,
      limit_memory_hard |-> gigabytes(c.memoryLimit),
      limit_memory_soft |-> gigabytes(floor80(c.memoryLimit)),
      log_level         |-> c.logLevel,
      email_from        |-> <<"admin@">> \o domainOrLocalhost(c),
      redisSection      |-> c.enableRedis ]

\* generateSetupScript with the access URL on port 80 behind nginx
generateSetupScriptNginxPort(c) ==
    [ projectName |-> c.projectName,
      nginxDirs   |-> c.enableNginx,
      accessUrl   |-> <<"http://localhost:",
                        IF c.enableNginx THEN <<"8", "0">> ELSE numberToString(c.httpPort)>>,
      backup      |-> <<c.dbUser, c.dbName>> ]

generateSetupScript(c) ==
    [ projectName |-> c.projectName,
      nginxDirs   |-> c.enableNginx,
      accessUrl   |-> <<"http://localhost:", numberToString(c.httpPort)>>,
      backup      |-> <<c.dbUser, c.dbName>> ]

\* generateGitignore with a line that counts the renderings made before it
generateGitignoreCounting ==
    [ patterns |-> "static", rendered |-> IF ret = None THEN 0 ELSE Len(ret[1]) ]

generateGitignore == [ patterns |-> "static" ]

generateNginxConf(c) ==
    [ projectName |-> c.projectName,
      server_name |-> domainOrLocalhost(c) ]

(***************************************************************************)
(* Paths: sequences of tokens, a folder token ending in "/"                 *)
(***************************************************************************)
ComposePath   == <<"docker-compose.yml">>
EnvPath       == <<".env">>
GitignorePath == <<".gitignore">>
SetupPath     == <<"setup.sh">>
OdooConfPath  == <<"config/", "odoo.conf">>
NginxConfPath == <<"nginx/", "nginx.conf">>
ConfigDir     == <<"config/">>
LogsDir       == <<"logs/">>
AddonsDir     == <<"addons/">>
NginxDir      == <<"nginx/">>
SslDir        == <<"nginx/", "ssl/">>
ReadmeName    == <<"README.md">>

\* renderFiles with nginx/nginx.conf rendered whatever enableNginx holds
renderFilesAlwaysNginx(c) ==
    LET paths == {ComposePath, EnvPath, OdooConfPath, SetupPath, GitignorePath, NginxConfPath}
    IN  [p \in paths |->
            CASE p = ComposePath   -> generateDockerCompose(c)
              [] p = EnvPath       -> generateEnvFile(c)
              [] p = OdooConfPath  -> generateOdooConf(c)
              [] p = SetupPath     -> generateSetupScript(c)
              [] p = GitignorePath -> generateGitignore
              [] p = NginxConfPath -> generateNginxConf(c)]

\* generateFiles, lines 1360-1371: the Map of file name to text
renderFiles(c) ==
    LET paths == {ComposePath, EnvPath, OdooConfPath, SetupPath, GitignorePath}
                    \cup (IF c.enableNginx THEN {NginxConfPath} ELSE {})
    IN  [p \in paths |->
            CASE p = ComposePath   -> generateDockerCompose(c)
              [] p = EnvPath       -> generateEnvFile(c)
              [] p = OdooConfPath  -> generateOdooConf(c)
              [] p = SetupPath     -> generateSetupScript(c)
              [] p = GitignorePath -> generateGitignore
              [] p = NginxConfPath -> generateNginxConf(c)]

\* prepareZipData with addons/ left out of the manifest
prepareZipDataNoAddons(c) ==
    [ root    |-> <<ComposePath, EnvPath, GitignorePath, SetupPath>>,
      folders |-> [d \in {ConfigDir, LogsDir}
                          \cup (IF c.enableNginx THEN {NginxDir, SslDir} ELSE {}) |->
                      CASE d = ConfigDir -> << <<"odoo.conf">> >>
                        [] d = NginxDir  -> << <<"nginx.conf">> >>
                        [] OTHER         -> << >>] ]

\* prepareZipData with the nginx folders listed whatever enableNginx holds
prepareZipDataAlwaysNginx(c) ==
    [ root    |-> <<ComposePath, EnvPath, GitignorePath, SetupPath>>,
      folders |-> [d \in {ConfigDir, LogsDir, AddonsDir, NginxDir, SslDir} |->
                      CASE d = ConfigDir -> << <<"odoo.conf">> >>
                        [] d = NginxDir  -> << <<"nginx.conf">> >>
                        [] OTHER         -> << >>] ]

\* prepareZipData with a data folder for redis when enableRedis holds
prepareZipDataRedisFolder(c) ==
    [ root    |-> <<ComposePath, EnvPath, GitignorePath, SetupPath>>,
      folders |-> [d \in {ConfigDir, LogsDir, AddonsDir}
                          \cup (IF c.enableNginx THEN {NginxDir, SslDir} ELSE {})
                          \cup (IF c.enableRedis THEN {<<"redis/">>} ELSE {}) |->
                      CASE d = ConfigDir -> << <<"odoo.conf">> >>
                        [] d = NginxDir  -> << <<"nginx.conf">> >>
                        [] OTHER         -> << >>] ]

\* prepareZipData, lines 1421-1438: this.zipStructure
prepareZipData(c) ==
    [ root    |-> <<ComposePath, EnvPath, GitignorePath, SetupPath>>,
      folders |-> [d \in {ConfigDir, LogsDir, AddonsDir}
                          \cup (IF c.enableNginx THEN {NginxDir, SslDir} ELSE {}) |->
                      CASE d = ConfigDir -> << <<"odoo.conf">> >>
                        [] d = NginxDir  -> << <<"nginx.conf">> >>
                        [] OTHER         -> << >>] ]

\* generateFolderReadme, lines 1215-1273: the text keyed by folder path
generateFolderReadme(folderPath) ==
    IF folderPath \in {LogsDir, AddonsDir, SslDir}
    THEN [readme |-> folderPath, known |-> TRUE]
    ELSE [readme |-> folderPath, known |-> FALSE]

\* the folder folderPath and the folders above it (JSZip's folder() creates both)
folderEntries(folderPath) == {SubSeq(folderPath, 1, n) : n \in 1..Len(folderPath)}

\* folderFiles without the README of an empty folder
folderFilesNoReadme(folderPath, names, files) ==
    {[path |-> folderPath \o names[i], text |-> files[folderPath \o names[i]]] :
        i \in {j \in 1..Len(names) : (folderPath \o names[j]) \in DOMAIN files}}

\* downloadAsZip, lines 1488-1508: the file entries one folder of the manifest adds
folderFiles(folderPath, names, files) ==
    {[path |-> folderPath \o names[i], text |-> files[folderPath \o names[i]]] :
        i \in {j \in 1..Len(names) : (folderPath \o names[j]) \in DOMAIN files}}
    \cup (IF Len(names) = 0
          THEN {[path |-> folderPath \o ReadmeName, text |-> generateFolderReadme(folderPath)]}
          ELSE {})

\* downloadAsZip, lines 1482-1508: the JSZip object before generateAsync
buildZip(projectName, structure, files) ==
    [ root  |-> projectName,
      dirs  |-> UNION {folderEntries(d) : d \in DOMAIN structure.folders},
      files |-> {[path |-> structure.root[i], text |-> files[structure.root[i]]] :
                    i \in {j \in 1..Len(structure.root) : structure.root[j] \in DOMAIN files}}
                \cup UNION {folderFiles(d, structure.folders[d], files) :
                                d \in DOMAIN structure.folders} ]

\* lines 1514-1518: the download handed to the browser
zipDownload(projectName, zip) ==
    [ download |-> projectName \o <<"-odoo-config.zip">>, zip |-> zip ]

(***************************************************************************)
(* The wizard                                                              *)
(***************************************************************************)
totalSteps == 4

\* this.config = {} (line 913): every field undefined; the text fields are
\* written as empty and the numbers as 0, and nothing reads them before the
\* first collectCurrentStepData assigns all of them
BaseConfigUnset ==
    [ projectName        |-> <<>>,
      odooVersion        |-> <<>>,
      httpPort           |-> 0,
      chatPort           |-> 0,
      domain             |-> <<>>,
      dbName             |-> <<>>,
      dbUser             |-> <<>>,
      dbPassword         |-> <<>>,
      adminPassword      |-> <<>>,
      enablePostgresPort |-> FALSE,
      workers            |-> 0,
      cronThreads        |-> 0,
      memoryLimit        |-> 0,
      logLevel           |-> <<>>,
      enableRedis        |-> FALSE,
      enableNginx        |-> FALSE ]

\* the field groups shown by each step (collectCurrentStepData, lines 1136-1158)
groupsOfStep(step) ==
    CASE step = 1 -> {"basic"}
      [] step = 2 -> {"database", "passwords"}
      [] step = 3 -> {"performance"}
      [] OTHER    -> {}

\* parseInt(value, 10) of a string of digits; getNumber gives 0 for ''
RECURSIVE parseInt(_)
parseInt(s) ==
    IF s = <<>> THEN 0
    ELSE parseInt(SubSeq(s, 1, Len(s) - 1)) * 10
            + (CHOOSE d \in 0..9 : Digits[d + 1] = s[Len(s)])

getNumber(value) == IF trim(value) = <<>> THEN 0 ELSE parseInt(trim(value))

getValue(value) == trim(value)

\* what the user can have typed into the form: the wizard's opening values,
\* with at most MaxEdits fields changed at any one time
MaxEdits == 1
MaxWorkersTyped == 1

Edits(c) ==
    Cardinality({f \in {"projectName", "httpPort", "dbPassword", "workers", "enableNginx"} :
        CASE f = "projectName" -> c.projectName # <<"a", "a">>
          [] f = "httpPort"    -> c.httpPort # 8069
          [] f = "dbPassword"  -> c.dbPassword \notin generateSecurePassword(DefaultPasswordLength)
          [] f = "workers"     -> c.workers # 0
          [] f = "enableNginx" -> c.enableNginx})

TypedNames     == { <<>>, <<"a", "a">>, <<"b", "b", " ">> }
TypedHttpPorts == { <<"8", "0", "6", "9">>, <<"8", "0", "7", "0">> }
TypedPasswords == { <<"s", "h", "o", "r", "t", "1">> }
TypedWorkers   == { numberToString(w) : w \in 0..MaxWorkersTyped }

\* the values collectCurrentStepData reads from the form: a field of a group
\* that was shown since the last collect holds anything typed, any other field
\* still holds what config holds
basicFields(c, groups) ==
    IF "basic" \in groups
    THEN {[projectName |-> getValue(n), odooVersion |-> <<"1", "7", ".", "0">>,
           httpPort |-> getNumber(hp), chatPort |-> getNumber(<<"8", "0", "7", "2">>),
           domain |-> getValue(<<>>)] :
              n \in TypedNames, hp \in TypedHttpPorts}
    ELSE {[projectName |-> c.projectName, odooVersion |-> c.odooVersion,
           httpPort |-> c.httpPort, chatPort |-> c.chatPort, domain |-> c.domain]}

databaseFields(c, groups) ==
    IF "database" \in groups
    THEN {[dbName |-> getValue(<<"o", "d", "o", "o">>),
           dbUser |-> getValue(<<"o", "d", "o", "o">>),
           enablePostgresPort |-> FALSE]}
    ELSE {[dbName |-> c.dbName, dbUser |-> c.dbUser,
           enablePostgresPort |-> c.enablePostgresPort]}

passwordFields(c, groups) ==
    IF "passwords" \in groups
    THEN {[dbPassword |-> getValue(p), adminPassword |-> c.adminPassword] :
              p \in TypedPasswords \cup {c.dbPassword}}
    ELSE {[dbPassword |-> c.dbPassword, adminPassword |-> c.adminPassword]}

performanceFields(c, groups) ==
    IF "performance" \in groups
    THEN {[workers |-> getNumber(w), cronThreads |-> getNumber(<<"2">>),
           memoryLimit |-> getNumber(<<"2">>), logLevel |-> getValue(<<"i", "n", "f", "o">>),
           enableRedis |-> FALSE, enableNginx |-> x] :
              w \in TypedWorkers, x \in BOOLEAN}
    ELSE {[workers |-> c.workers, cronThreads |-> c.cronThreads,
           memoryLimit |-> c.memoryLimit, logLevel |-> c.logLevel,
           enableRedis |-> c.enableRedis, enableNginx |-> c.enableNginx]}

\* collectCurrentStepData, lines 1116-1161: the configurations Object.assign can leave
collectCurrentStepData(c, groups) ==
    {[ projectName        |-> b.projectName,
       odooVersion        |-> b.odooVersion,
       httpPort           |-> b.httpPort,
       chatPort           |-> b.chatPort,
       domain             |-> b.domain,
       dbName             |-> d.dbName,
       dbUser             |-> d.dbUser,
       dbPassword         |-> s.dbPassword,
       adminPassword      |-> s.adminPassword,
       enablePostgresPort |-> d.enablePostgresPort,
       workers            |-> f.workers,
       cronThreads        |-> f.cronThreads,
       memoryLimit        |-> f.memoryLimit,
       logLevel           |-> f.logLevel,
       enableRedis        |-> f.enableRedis,
       enableNginx        |-> f.enableNginx ] :
          b \in basicFields(c, groups), d \in databaseFields(c, groups),
          s \in passwordFields(c, groups), f \in performanceFields(c, groups)}

\* the collected configurations within the bound on edits
collected(c, groups) == {x \in collectCurrentStepData(c, groups) : Edits(x) <= MaxEdits}

\* showToast(message, type); message is a Msg
Toast(message, type) == Some([message |-> message, type |-> type])

\* generateDockerCommandsPreview, lines 1316-1351 (generateReview, lines 1278-1311,
\* writes fields of the same config in the same step)
generateDockerCommandsPreview(c) ==
    Some([ projectDir |-> c.projectName,
           accessUrl  |-> <<"http://", domainOrLocalhost(c), ":", numberToString(c.httpPort)>> ])

\* nextStep validates on the steps up to this one (line 1073)
lastValidatedStep == 2

\* generatePasswords, lines 944-945: the calls of generateSecurePassword it makes
generatorCalls ==
    << [field |-> "dbPassword", length |-> DefaultPasswordLength],
       [field |-> "adminPassword", length |-> DefaultPasswordLength] >>

\* constructor and init, lines 909-935: the fields of config other than the two
\* passwords are undefined until the first collect, which assigns them all
Init ==
    /\ currentStep = 1
    /\ \E p \in generateSecurePassword(DefaultPasswordLength),
          a \in generateSecurePassword(DefaultPasswordLength) :
          config = [BaseConfigUnset EXCEPT !.dbPassword = p, !.adminPassword = a]
    /\ touched = {"basic", "database", "performance"}
    /\ generatedFiles = None
    /\ zipStructure = None
    /\ dockerCommands = None
    /\ toast = None
    /\ lastOp = "init"
    /\ JSZip = FALSE
    /\ downloads = <<>>
    /\ emitted = None
    /\ passwordCalls = generatorCalls
    /\ arg = None
    /\ ret = None

\* nextStep whose generateFiles adds the new artifacts to the stored Map
\* instead of replacing it
nextStepMerging ==
    \E c \in collected(config, touched) :
        /\ config' = c
        /\ emitted' = None
        /\ passwordCalls' = <<>>
        /\ UNCHANGED <<JSZip, downloads, arg, ret>>
        /\ IF currentStep <= lastValidatedStep /\ validateForm(c) # <<>>
           THEN /\ toast' = Toast(validateForm(c)[1], "error")
                /\ lastOp' = "nextStep: rejected"
                /\ touched' = groupsOfStep(currentStep)
                /\ UNCHANGED <<currentStep, generatedFiles, zipStructure, dockerCommands>>
           ELSE IF currentStep < totalSteps
           THEN /\ currentStep' = currentStep + 1
                /\ touched' = groupsOfStep(currentStep + 1)
                /\ toast' = None
                /\ lastOp' = "nextStep: advanced"
                /\ IF currentStep + 1 = totalSteps
                   THEN dockerCommands' = generateDockerCommandsPreview(c)
                   ELSE UNCHANGED dockerCommands
                /\ UNCHANGED <<generatedFiles, zipStructure>>
           ELSE \* generateFiles, lines 1356-1381
                /\ generatedFiles' =
                       Some(IF generatedFiles = None
                            THEN renderFiles(c)
                            ELSE [p \in DOMAIN generatedFiles[1] \cup DOMAIN renderFiles(c) |->
                                     IF p \in DOMAIN renderFiles(c)
                                     THEN renderFiles(c)[p]
                                     ELSE generatedFiles[1][p]])
                /\ zipStructure' = Some(prepareZipData(c))
                /\ toast' = Toast(Msg("Configuracoes geradas com sucesso!", <<>>), "success")
                /\ lastOp' = "nextStep: generateFiles"
                /\ touched' = groupsOfStep(currentStep)
                /\ UNCHANGED <<currentStep, dockerCommands>>

\* nextStep without the return after showToast(errors[0]): the message is
\* shown and the wizard advances all the same
nextStepNoReturn ==
    \E c \in collected(config, touched) :
        /\ config' = c
        /\ emitted' = None
        /\ passwordCalls' = <<>>
        /\ UNCHANGED <<JSZip, downloads, arg, ret>>
        /\ IF currentStep <= lastValidatedStep /\ validateForm(c) # <<>>
           THEN /\ toast' = Toast(validateForm(c)[1], "error")
                /\ lastOp' = "nextStep: rejected"
                /\ currentStep' = currentStep + 1
                /\ touched' = groupsOfStep(currentStep + 1)
                /\ UNCHANGED <<generatedFiles, zipStructure, dockerCommands>>
           ELSE IF currentStep < totalSteps
           THEN /\ currentStep' = currentStep + 1
                /\ touched' = groupsOfStep(currentStep + 1)
                /\ toast' = None
                /\ lastOp' = "nextStep: advanced"
                /\ IF currentStep + 1 = totalSteps
                   THEN dockerCommands' = generateDockerCommandsPreview(c)
                   ELSE UNCHANGED dockerCommands
                /\ UNCHANGED <<generatedFiles, zipStructure>>
           ELSE \* generateFiles, lines 1356-1381
                /\ generatedFiles' = Some(renderFiles(c))
                /\ zipStructure' = Some(prepareZipData(c))
                /\ toast' = Toast(Msg("Configuracoes geradas com sucesso!", <<>>), "success")
                /\ lastOp' = "nextStep: generateFiles"
                /\ touched' = groupsOfStep(currentStep)
                /\ UNCHANGED <<currentStep, dockerCommands>>

\* nextStep, lines 1066-1099
nextStep ==
    \E c \in collected(config, touched) :
        /\ config' = c
        /\ emitted' = None
        /\ passwordCalls' = <<>>
        /\ UNCHANGED <<JSZip, downloads, arg, ret>>
        /\ IF currentStep <= lastValidatedStep /\ validateForm(c) # <<>>
           THEN /\ toast' = Toast(validateForm(c)[1], "error")
                /\ lastOp' = "nextStep: rejected"
                /\ touched' = groupsOfStep(currentStep)
                /\ UNCHANGED <<currentStep, generatedFiles, zipStructure, dockerCommands>>
           ELSE IF currentStep < totalSteps
           THEN /\ currentStep' = currentStep + 1
                /\ touched' = groupsOfStep(currentStep + 1)
                /\ toast' = None
                /\ lastOp' = "nextStep: advanced"
                /\ IF currentStep + 1 = totalSteps
                   THEN dockerCommands' = generateDockerCommandsPreview(c)
                   ELSE UNCHANGED dockerCommands
                /\ UNCHANGED <<generatedFiles, zipStructure>>
           ELSE \* generateFiles, lines 1356-1381
                /\ generatedFiles' = Some(renderFiles(c))
                /\ zipStructure' = Some(prepareZipData(c))
                /\ toast' = Toast(Msg("Configuracoes geradas com sucesso!", <<>>), "success")
                /\ lastOp' = "nextStep: generateFiles"
                /\ touched' = groupsOfStep(currentStep)
                /\ UNCHANGED <<currentStep, dockerCommands>>

\* previousStep without the test currentStep > 1
previousStepUnguarded ==
    /\ currentStep' = currentStep - 1
    /\ touched' = touched \cup groupsOfStep(currentStep - 1)
    /\ toast' = None
    /\ lastOp' = "previousStep"
    /\ emitted' = None
    /\ passwordCalls' = <<>>
    /\ UNCHANGED <<config, generatedFiles, zipStructure, dockerCommands,
                   JSZip, downloads, arg, ret>>

\* previousStep, lines 1104-1111
previousStep ==
    /\ IF currentStep > 1
       THEN /\ currentStep' = currentStep - 1
            /\ touched' = touched \cup groupsOfStep(currentStep - 1)
       ELSE UNCHANGED <<currentStep, touched>>
    /\ toast' = None
    /\ lastOp' = "previousStep"
    /\ emitted' = None
    /\ passwordCalls' = <<>>
    /\ UNCHANGED <<config, generatedFiles, zipStructure, dockerCommands,
                   JSZip, downloads, arg, ret>>

\* generatePasswords with one generated password written to both fields
generatePasswordsOnce ==
    /\ \E p \in generateSecurePassword(DefaultPasswordLength) :
          config' = [config EXCEPT !.dbPassword = p, !.adminPassword = p]
    /\ touched' = (touched \ {"passwords"}) \cup (groupsOfStep(currentStep) \cap {"passwords"})
    /\ toast' = Toast(Msg("Novas senhas geradas com sucesso!", <<>>), "success")
    /\ lastOp' = "generatePasswords"
    /\ emitted' = None
    /\ passwordCalls' = <<[field |-> "dbPassword", length |-> DefaultPasswordLength]>>
    /\ UNCHANGED <<currentStep, generatedFiles, zipStructure, dockerCommands,
                   JSZip, downloads, arg, ret>>

\* the 'Gerar Senha' click, lines 989-995, and generatePasswords, lines 940-952
generatePasswords ==
    /\ \E p \in generateSecurePassword(DefaultPasswordLength),
          a \in generateSecurePassword(DefaultPasswordLength) :
          config' = [config EXCEPT !.dbPassword = p, !.adminPassword = a]
    /\ touched' = (touched \ {"passwords"}) \cup (groupsOfStep(currentStep) \cap {"passwords"})
    /\ toast' = Toast(Msg("Novas senhas geradas com sucesso!", <<>>), "success")
    /\ lastOp' = "generatePasswords"
    /\ emitted' = None
    /\ passwordCalls' = generatorCalls
    /\ UNCHANGED <<currentStep, generatedFiles, zipStructure, dockerCommands,
                   JSZip, downloads, arg, ret>>

\* the downloadAsZip calls that may be in flight at once
MaxDownloads == 1

Remove(s, i) == SubSeq(s, 1, i - 1) \o SubSeq(s, i + 1, Len(s))

\* lines 1482-1511: from `new JSZip()` to the call of generateAsync
awaitGenerateAsync ==
    [ pc  |-> "generateAsync",
      zip |-> Some(buildZip(config.projectName, zipStructure[1], generatedFiles[1])) ]

\* a call of downloadAsZip that has not returned: the call's number, where it
\* waits, and the archive it holds
pending(id, at) == [id |-> id, pc |-> at.pc, zip |-> at.zip]

\* the number of the next call of downloadAsZip: the least one not in use
freeId == CHOOSE k \in 1..MaxDownloads :
              /\ \A i \in 1..Len(downloads) : downloads[i].id # k
              /\ \A j \in 1..(k - 1) : \E i \in 1..Len(downloads) : downloads[i].id = j

\* downloadAsZip without the test of this.generatedFiles (lines 1473-1476): with
\* nothing generated it goes on to load JSZip
downloadAsZipUnguarded ==
    /\ Len(downloads) < MaxDownloads
    /\ emitted' = None
    /\ passwordCalls' = <<>>
    /\ UNCHANGED <<currentStep, config, touched, generatedFiles, zipStructure,
                   dockerCommands, JSZip, arg, ret>>
    /\ toast' = None
    /\ lastOp' = "downloadAsZip: started"
    /\ IF JSZip /\ generatedFiles # None
       THEN downloads' = Append(downloads, pending(freeId, awaitGenerateAsync))
       ELSE downloads' = Append(downloads, pending(freeId, [pc |-> "loadJSZip", zip |-> None]))

\* downloadAsZip up to its first await, lines 1472-1511
downloadAsZip ==
    /\ Len(downloads) < MaxDownloads
    /\ emitted' = None
    /\ passwordCalls' = <<>>
    /\ UNCHANGED <<currentStep, config, touched, generatedFiles, zipStructure,
                   dockerCommands, JSZip, arg, ret>>
    /\ IF generatedFiles = None
       THEN /\ toast' = Toast(Msg("Nenhum arquivo foi gerado ainda!", <<>>), "error")
            /\ lastOp' = "downloadAsZip: nothing generated"
            /\ UNCHANGED downloads
       ELSE /\ toast' = None
            /\ lastOp' = "downloadAsZip: started"
            /\ IF JSZip
               THEN downloads' = Append(downloads, pending(freeId, awaitGenerateAsync))
               ELSE downloads' = Append(downloads, pending(freeId, [pc |-> "loadJSZip", zip |-> None]))

\* script.onload of loadJSZip (line 1552), then downloadAsZip up to generateAsync
loadJSZipOnload ==
    \E i \in 1..Len(downloads) :
        /\ downloads[i].pc = "loadJSZip"
        /\ JSZip' = TRUE
        /\ downloads' = [downloads EXCEPT ![i] = pending(downloads[i].id, awaitGenerateAsync)]
        /\ toast' = None
        /\ lastOp' = "downloadAsZip: JSZip loaded"
        /\ emitted' = None
        /\ passwordCalls' = <<>>
        /\ UNCHANGED <<currentStep, config, touched, generatedFiles, zipStructure,
                       dockerCommands, arg, ret>>

\* loadJSZip without the onerror handler: the promise is never settled
loadJSZipOnerrorUnhandled ==
    \E i \in 1..Len(downloads) :
        /\ downloads[i].pc = "loadJSZip"
        /\ downloads' = [downloads EXCEPT ![i].pc = "loadJSZip: never settled"]
        /\ toast' = None
        /\ lastOp' = "loadJSZip: script error"
        /\ emitted' = None
        /\ passwordCalls' = <<>>
        /\ UNCHANGED <<currentStep, config, touched, generatedFiles, zipStructure,
                       dockerCommands, JSZip, arg, ret>>

\* script.onerror of loadJSZip (line 1553), then the catch of downloadAsZip
loadJSZipOnerror ==
    \E i \in 1..Len(downloads) :
        /\ downloads[i].pc = "loadJSZip"
        /\ downloads' = Remove(downloads, i)
        /\ toast' = Toast(Msg("Erro ao gerar ZIP. Use os botoes individuais.", <<>>), "error")
        /\ lastOp' = "downloadAsZip: failed"
        /\ emitted' = None
        /\ passwordCalls' = <<>>
        /\ UNCHANGED <<currentStep, config, touched, generatedFiles, zipStructure,
                       dockerCommands, JSZip, arg, ret>>

\* generateAsync resolves: downloadAsZip, lines 1511-1526
generateAsyncResolved ==
    \E i \in 1..Len(downloads) :
        /\ downloads[i].pc = "generateAsync"
        /\ emitted' = Some(zipDownload(config.projectName, downloads[i].zip[1]))
        /\ passwordCalls' = <<>>
        /\ downloads' = Remove(downloads, i)
        /\ toast' = Toast(Msg("Download do ZIP iniciado!", <<>>), "success")
        /\ lastOp' = "downloadAsZip: downloaded"
        /\ UNCHANGED <<currentStep, config, touched, generatedFiles, zipStructure,
                       dockerCommands, JSZip, arg, ret>>

\* generateAsyncRejected with the error logged only: nothing is shown
generateAsyncRejectedSilent ==
    \E i \in 1..Len(downloads) :
        /\ downloads[i].pc = "generateAsync"
        /\ downloads' = Remove(downloads, i)
        /\ toast' = None
        /\ lastOp' = "downloadAsZip: failed"
        /\ emitted' = None
        /\ passwordCalls' = <<>>
        /\ UNCHANGED <<currentStep, config, touched, generatedFiles, zipStructure,
                       dockerCommands, JSZip, arg, ret>>

\* generateAsync rejects: the catch of downloadAsZip, lines 1528-1531
generateAsyncRejected ==
    \E i \in 1..Len(downloads) :
        /\ downloads[i].pc = "generateAsync"
        /\ downloads' = Remove(downloads, i)
        /\ toast' = Toast(Msg("Erro ao gerar ZIP. Use os botoes individuais.", <<>>), "error")
        /\ lastOp' = "downloadAsZip: failed"
        /\ emitted' = None
        /\ passwordCalls' = <<>>
        /\ UNCHANGED <<currentStep, config, touched, generatedFiles, zipStructure,
                       dockerCommands, JSZip, arg, ret>>

Next ==
    \/ nextStep
    \/ previousStep
    \/ generatePasswords
    \/ downloadAsZip
    \/ loadJSZipOnload
    \/ loadJSZipOnerror
    \/ generateAsyncResolved
    \/ generateAsyncRejected

Spec == Init /\ [][Next]_vars

\* The browser settles what each call of downloadAsZip awaits: the script
\* element appended by loadJSZip fires onload or onerror (lines 1552-1553),
\* and the promise of generateAsync resolves or rejects (line 1511).
pcOf(ds, id) ==
    IF \E i \in 1..Len(ds) : ds[i].id = id
    THEN (CHOOSE d \in Range(ds) : d.id = id).pc
    ELSE "returned"

Delivered(id) ==
    /\ \/ loadJSZipOnload
       \/ loadJSZipOnerror
       \/ generateAsyncResolved
       \/ generateAsyncRejected
    /\ pcOf(downloads', id) # pcOf(downloads, id)

CallbacksDelivered == \A id \in 1..MaxDownloads : WF_vars(Delivered(id))

SpecLive == Init /\ [][Next]_vars /\ CallbacksDelivered

(***************************************************************************)
(* Inputs of the function-level specifications                             *)
(***************************************************************************)
MaxWorkers == 2

BasePassword == <<"a", "b", "c", "d", "e", "f", "g", "h", "i", "j", "k", "l">>

BaseConfig ==
    [ projectName        |-> <<"m", "y", "-", "o", "d", "o", "o">>,
      odooVersion        |-> <<"1", "7", ".", "0">>,
      httpPort           |-> 8069,
      chatPort           |-> 8072,
      domain             |-> <<>>,
      dbName             |-> <<"o", "d", "o", "o">>,
      dbUser             |-> <<"o", "d", "o", "o">>,
      dbPassword         |-> BasePassword,
      adminPassword      |-> BasePassword,
      enablePostgresPort |-> FALSE,
      workers            |-> 0,
      cronThreads        |-> 2,
      memoryLimit        |-> 2,
      logLevel           |-> <<"i", "n", "f", "o">>,
      enableRedis        |-> FALSE,
      enableNginx        |-> FALSE ]

NameSamples ==
    { <<>>, <<" ">>, <<"a">>, <<"-">>, <<"a", "-">>,
      <<"m", "y", "-", "o", "d", "o", "o">>,
      <<"d", "o", "c", "k", "e", "r">>,
      <<"A", "p", "i">> }

PortSamples == {80, 3306, 8069, 8072, 65536}

DomainSamples ==
    { <<>>,
      <<"e", "x", "a", "m", "p", "l", "e", ".", "c", "o", "m">>,
      <<"m", "e", "u", "s", "i", "t", "e", ".", "c", "o", "m", ".", "b", "r">>,
      <<"m", "y", "l", "o", "c", "a", "l", "h", "o", "s", "t", ".", "c", "o", "m">>,
      <<"1", "0", ".", "0", ".", "0", ".", "1">>,
      <<"m", "y", "_", "s", "i", "t", "e">> }

PasswordSamples ==
    { <<>>,
      <<"s", "h", "o", "r", "t", "1">>,
      <<"1", "2", "3", "4", "5", "6", "7", "8", "9", "0", "1", "2">>,
      BasePassword,
      <<"a", "b", "c", "d", "e", "f", " ", "g", "h", "i", "j", "k", "l">>,
      <<"a", "b", "c", "d", "e", "f", "\t", "g", "h", "i", "j", "k", "l">> }

\* every combination of the fields validateForm reads
CheckedFieldInputs ==
    { [BaseConfig EXCEPT !.projectName = n, !.httpPort = hp, !.chatPort = cp,
                         !.domain = d, !.dbPassword = p, !.adminPassword = a,
                         !.workers = w] :
        n \in NameSamples, hp \in PortSamples, cp \in PortSamples, d \in DomainSamples,
        p \in PasswordSamples, a \in PasswordSamples, w \in 0..MaxWorkers }

\* the remaining fields of the data model, one changed at a time
OtherFieldInputs ==
    { [BaseConfig EXCEPT !.dbName = <<>>],
      [BaseConfig EXCEPT !.dbUser = <<>>],
      [BaseConfig EXCEPT !.cronThreads = -1],
      [BaseConfig EXCEPT !.memoryLimit = 0],
      [BaseConfig EXCEPT !.logLevel = <<"v", "e", "r", "b", "o", "s", "e">>],
      [BaseConfig EXCEPT !.enableRedis = TRUE, !.enableNginx = TRUE,
                         !.enablePostgresPort = TRUE] }

ValidateInputs == CheckedFieldInputs \cup OtherFieldInputs

(***************************************************************************)
(* The wizard's state when only a function is under test                   *)
(***************************************************************************)
WizardIdle ==
    /\ currentStep = 1
    /\ config = BaseConfig
    /\ touched = {}
    /\ generatedFiles = None
    /\ zipStructure = None
    /\ dockerCommands = None
    /\ toast = None
    /\ lastOp = "none"
    /\ JSZip = FALSE
    /\ downloads = <<>>
    /\ emitted = None
    /\ passwordCalls = <<>>

(***************************************************************************)
(* SpecValidate: validateForm applied to every sampled configuration       *)
(***************************************************************************)
InitValidate ==
    /\ WizardIdle
    /\ arg \in {Some(c) : c \in ValidateInputs}
    /\ ret = None

CallValidateForm ==
    /\ ret = None
    /\ ret' = Some(validateForm(arg[1]))
    /\ UNCHANGED <<arg, wizardVars>>

NextValidate == CallValidateForm

SpecValidate == InitValidate /\ [][NextValidate]_vars

(***************************************************************************)
(* SpecAssemble: the archive assembly of downloadAsZip applied to a        *)
(* manifest and to every sub-mapping of the rendered artifacts             *)
(***************************************************************************)
AssembleConfigs ==
    { [BaseConfig EXCEPT !.projectName = n, !.enableRedis = r, !.enableNginx = x,
                         !.enablePostgresPort = pp] :
        n \in {<<"m", "y", "-", "o", "d", "o", "o">>, <<"a">>},
        r \in BOOLEAN, x \in BOOLEAN, pp \in BOOLEAN }

Restrict(f, S) == [p \in S |-> f[p]]

AssembleInputs ==
    UNION { { [config |-> c, zipStructure |-> prepareZipData(c),
               generatedFiles |-> Restrict(renderFiles(c), S)] :
                  S \in SUBSET DOMAIN renderFiles(c) } :
            c \in AssembleConfigs }

InitAssemble ==
    /\ WizardIdle
    /\ arg \in {Some(a) : a \in AssembleInputs}
    /\ ret = None

\* downloadAsZip, lines 1482-1526, when generateAsync resolves
AssembleResolved ==
    /\ ret = None
    /\ ret' = Some([outcome |-> "downloaded",
                    file |-> zipDownload(arg[1].config.projectName,
                                buildZip(arg[1].config.projectName, arg[1].zipStructure,
                                         arg[1].generatedFiles))])
    /\ UNCHANGED <<arg, wizardVars>>

\* downloadAsZip, lines 1482-1531, when generateAsync rejects
AssembleRejected ==
    /\ ret = None
    /\ ret' = Some([outcome |-> "failed"])
    /\ UNCHANGED <<arg, wizardVars>>

NextAssemble == AssembleResolved \/ AssembleRejected

SpecAssemble == InitAssemble /\ [][NextAssemble]_vars

(***************************************************************************)
(* SpecPassword: generateSecurePassword applied to sampled lengths and to  *)
(* sampled outcomes of the random source, with and without the crypto API  *)
(***************************************************************************)
PasswordLengths == {1, 24, 128}

\* the largest value of an element of a Uint8Array (line 40)
MaxByte == 255

\* random sources: every value repeated, and every value as the start of a ramp
ByteArrays(length) ==
    {[i \in 1..length |-> b] : b \in 0..MaxByte}
        \cup {[i \in 1..length |-> (b + i) % (MaxByte + 1)] : b \in 0..MaxByte}

IndexArrays(length) ==
    {[i \in 1..length |-> x] : x \in 0..(Len(charset) - 1)}
        \cup {[i \in 1..length |-> (x + i) % Len(charset)] : x \in 0..(Len(charset) - 1)}

PasswordInputs ==
    UNION { {[length |-> n, crypto |-> TRUE, random |-> r] : r \in ByteArrays(n)}
              \cup {[length |-> n, crypto |-> FALSE, random |-> r] : r \in IndexArrays(n)} :
            n \in PasswordLengths }

InitPassword ==
    /\ WizardIdle
    /\ arg \in {Some(a) : a \in PasswordInputs}
    /\ ret = None

CallGenerateSecurePassword ==
    /\ ret = None
    /\ ret' = Some(generateSecurePasswordWith(arg[1].length, arg[1].crypto, arg[1].random))
    /\ UNCHANGED <<arg, wizardVars>>

NextPassword == CallGenerateSecurePassword

SpecPassword == InitPassword /\ [][NextPassword]_vars

(***************************************************************************)
(* SpecRender: generateFiles called twice in a row on a sampled            *)
(* configuration                                                           *)
(***************************************************************************)
MaxMemoryLimit == 16

\* generateFiles, lines 1356-1381, and prepareZipData: what one run stores
generateFiles(c) ==
    [ generatedFiles |-> renderFiles(c), zipStructure |-> prepareZipData(c) ]

RenderInputs ==
    { [BaseConfig EXCEPT !.projectName = n, !.domain = d, !.enableRedis = r,
                         !.enableNginx = x, !.enablePostgresPort = pp,
                         !.memoryLimit = m, !.workers = w] :
        n \in {<<"m", "y", "-", "o", "d", "o", "o">>, <<"a">>},
        d \in {<<>>, <<"e", "x", "a", "m", "p", "l", "e", ".", "c", "o", "m">>},
        r \in BOOLEAN, x \in BOOLEAN, pp \in BOOLEAN,
        m \in 1..MaxMemoryLimit, w \in {0, 4} }

InitRender ==
    /\ WizardIdle
    /\ arg \in {Some(c) : c \in RenderInputs}
    /\ ret = None

\* the first run
CallGenerateFiles ==
    /\ ret = None
    /\ ret' = Some(<<generateFiles(arg[1])>>)
    /\ UNCHANGED <<arg, wizardVars>>

\* a second run on the same configuration
CallGenerateFilesAgain ==
    /\ ret # None
    /\ Len(ret[1]) = 1
    /\ ret' = Some(Append(ret[1], generateFiles(arg[1])))
    /\ UNCHANGED <<arg, wizardVars>>

NextRender == CallGenerateFiles \/ CallGenerateFilesAgain

SpecRender == InitRender /\ [][NextRender]_vars

(***************************************************************************)
(* The data model, as the specification words it                           *)
(***************************************************************************)
\* empty or made of white space only
Blank(s) == \A i \in 1..Len(s) : s[i] \in WhiteSpace

\* lowercase letters and digits, hyphens in interior positions only
IsIdentifier(s) ==
    /\ s # <<>>
    /\ AllIn(s, Lower \cup Digit \cup {"-"})
    /\ s[1] # "-"
    /\ s[Len(s)] # "-"

\* the pieces of s between the occurrences of c
RECURSIVE Split(_, _)
Split(s, c) ==
    IF Positions(s, c) = {} THEN <<s>>
    ELSE LET p == CHOOSE i \in Positions(s, c) : \A j \in Positions(s, c) : i <= j
         IN  <<SubSeq(s, 1, p - 1)>> \o Split(SubSeq(s, p + 1, Len(s)), c)

IsHostLabel(l) ==
    /\ Len(l) >= 1
    /\ Len(l) <= 63
    /\ AllIn(l, Alpha \cup Digit \cup {"-"})
    /\ l[1] # "-"
    /\ l[Len(l)] # "-"

\* dot-separated labels ending in an alphabetic top-level domain
IsHostname(s) ==
    LET labels == Split(s, ".")
    IN  /\ Len(labels) >= 2
        /\ \A i \in 1..Len(labels) : IsHostLabel(labels[i])
        /\ Len(labels[Len(labels)]) >= 2
        /\ AllIn(labels[Len(labels)], Alpha)

IsIPv4Literal(s) ==
    LET parts == Split(s, ".")
    IN  Len(parts) = 4 /\ \A i \in 1..4 : parts[i] # <<>> /\ AllIn(parts[i], Digit)

HasWhiteSpace(s) == \E i \in 1..Len(s) : s[i] \in WhiteSpace

AllDigits(s) == s # <<>> /\ AllIn(s, Digit)

LogLevels == { <<"e", "r", "r", "o", "r">>, <<"w", "a", "r", "n">>,
               <<"i", "n", "f", "o">>, <<"d", "e", "b", "u", "g">> }

\* the constraints of the data model that configuration c violates
Violations(c) ==
    {k \in {"projectName.pattern", "projectName.reserved", "httpPort.range",
            "chatPort.range", "ports.distinct", "httpPort.wellKnown",
            "chatPort.wellKnown", "domain.pattern", "dbName.nonEmpty",
            "dbUser.nonEmpty", "dbPassword.length", "adminPassword.length",
            "dbPassword.whitespace", "adminPassword.whitespace",
            "dbPassword.allDigit", "adminPassword.allDigit", "workers",
            "cronThreads", "memoryLimit", "logLevel"} :
        CASE k = "projectName.pattern"      -> ~IsIdentifier(c.projectName)
          [] k = "projectName.reserved"     -> c.projectName \in reservedWords
          [] k = "httpPort.range"           -> c.httpPort < 1024 \/ c.httpPort > 65535
          [] k = "chatPort.range"           -> c.chatPort < 1024 \/ c.chatPort > 65535
          [] k = "ports.distinct"           -> c.httpPort = c.chatPort
          [] k = "httpPort.wellKnown"       -> c.httpPort \in commonPorts
          [] k = "chatPort.wellKnown"       -> c.chatPort \in commonPorts
          [] k = "domain.pattern"           -> c.domain # <<>> /\ ~IsHostname(c.domain)
          [] k = "dbName.nonEmpty"          -> c.dbName = <<>>
          [] k = "dbUser.nonEmpty"          -> c.dbUser = <<>>
          [] k = "dbPassword.length"        -> Len(c.dbPassword) < 12
          [] k = "adminPassword.length"     -> Len(c.adminPassword) < 12
          [] k = "dbPassword.whitespace"    -> HasWhiteSpace(c.dbPassword)
          [] k = "adminPassword.whitespace" -> HasWhiteSpace(c.adminPassword)
          [] k = "dbPassword.allDigit"      -> AllDigits(c.dbPassword)
          [] k = "adminPassword.allDigit"   -> AllDigits(c.adminPassword)
          [] k = "workers"                  -> c.workers > 0 /\ c.workers < 2
          [] k = "cronThreads"              -> c.cronThreads < 0
          [] k = "memoryLimit"              -> c.memoryLimit < 1
          [] k = "logLevel"                 -> c.logLevel \notin LogLevels }

\* the messages of validateForm that name the field constraint k is about
MessagesAbout(k, c) ==
    CASE k \in {"projectName.pattern", "projectName.reserved"} ->
            {MsgProjectNameRequired, MsgProjectNamePattern, MsgReserved(c.projectName)}
      [] k \in {"httpPort.range", "httpPort.wellKnown"} ->
            {MsgHttpPortRange, MsgCommonPort(Max(c.httpPort, 0))}
      [] k \in {"chatPort.range", "chatPort.wellKnown"} ->
            {MsgChatPortRange, MsgCommonPort(Max(c.chatPort, 0))}
      [] k = "ports.distinct" -> {MsgPortsEqual}
      [] k = "domain.pattern" -> {MsgDomainFormat, MsgDomainLocal}
      [] k \in {"dbPassword.length", "dbPassword.whitespace", "dbPassword.allDigit"} ->
            {MsgDbPasswordRequired, MsgDbPasswordLength, MsgPasswordSpaces, MsgPasswordDigits}
      [] k \in {"adminPassword.length", "adminPassword.whitespace", "adminPassword.allDigit"} ->
            {MsgAdminPasswordRequired, MsgAdminPasswordLength, MsgPasswordSpaces, MsgPasswordDigits}
      [] k = "workers" -> {MsgWorkers}
      [] OTHER -> {}

CriticalPresent(c) ==
    ~Blank(c.projectName) /\ ~Blank(c.dbPassword) /\ ~Blank(c.adminPassword)

(***************************************************************************)
(* Properties of validateForm (SpecValidate)                               *)
(***************************************************************************)
\* C3: when projectName, dbPassword or adminPassword is empty or white space
\* only, validateForm returns exactly one message, that of the first missing
\* field in the order projectName, dbPassword, adminPassword, whatever the
\* other fields hold.
C3_CriticalGateSingleMessage ==
    ret # None =>
        LET c == arg[1]
        IN  /\ Blank(c.projectName) => ret[1] = <<MsgProjectNameRequired>>
            /\ ~Blank(c.projectName) /\ Blank(c.dbPassword)
                   => ret[1] = <<MsgDbPasswordRequired>>
            /\ ~Blank(c.projectName) /\ ~Blank(c.dbPassword) /\ Blank(c.adminPassword)
                   => ret[1] = <<MsgAdminPasswordRequired>>

\* C3's case: project name and database password both missing, ports equal and
\* out of range, and validateForm has answered
C3_Witness ==
    /\ ret # None
    /\ Blank(arg[1].projectName)
    /\ Blank(arg[1].dbPassword)
    /\ arg[1].httpPort = arg[1].chatPort
    /\ arg[1].httpPort > 65535
    /\ Len(ret[1]) = 1

\* C4: with the three critical fields present, the result holds the message of
\* every violated accumulating check (name pattern, reserved word, each port's
\* range, port equality, each port's blocklist hit, domain pattern,
\* localhost/IP domain, each password's length, password white space, all-digit
\* password, worker count), whatever else is violated.
C4_AllViolationsReported ==
    (ret # None /\ CriticalPresent(arg[1])) =>
        LET c == arg[1]
            errors == Range(ret[1])
            v == Violations(c)
        IN  /\ "projectName.pattern" \in v => MsgProjectNamePattern \in errors
            /\ "projectName.reserved" \in v => MsgReserved(c.projectName) \in errors
            /\ "httpPort.range" \in v => MsgHttpPortRange \in errors
            /\ "chatPort.range" \in v => MsgChatPortRange \in errors
            /\ "ports.distinct" \in v => MsgPortsEqual \in errors
            /\ "httpPort.wellKnown" \in v => MsgCommonPort(c.httpPort) \in errors
            /\ "chatPort.wellKnown" \in v => MsgCommonPort(c.chatPort) \in errors
            /\ "domain.pattern" \in v => MsgDomainFormat \in errors
            /\ (c.domain # <<>> /\ (includes(toLowerCase(c.domain),
                                             <<"l", "o", "c", "a", "l", "h", "o", "s", "t">>)
                                    \/ IsIPv4Literal(c.domain)))
                   => MsgDomainLocal \in errors
            /\ "dbPassword.length" \in v => MsgDbPasswordLength \in errors
            /\ "adminPassword.length" \in v => MsgAdminPasswordLength \in errors
            /\ ({"dbPassword.whitespace", "adminPassword.whitespace"} \cap v # {})
                   => MsgPasswordSpaces \in errors
            /\ ({"dbPassword.allDigit", "adminPassword.allDigit"} \cap v # {})
                   => MsgPasswordDigits \in errors
            /\ "workers" \in v => MsgWorkers \in errors

\* C4's case: the one-character name "-" with a privileged HTTP port: the port
\* is reported, the name is not
C4_Witness ==
    /\ ret # None
    /\ arg[1].projectName = <<"-">>
    /\ arg[1].httpPort = 80
    /\ MsgHttpPortRange \in Range(ret[1])
    /\ MsgProjectNamePattern \notin Range(ret[1])

\* C5: a configuration that satisfies every constraint of the data model gets
\* the empty list.
C5_ValidConfigPasses ==
    (ret # None /\ Violations(arg[1]) = {}) => ret[1] = <<>>

\* C5's case: a configuration without violation whose domain is the hostname
\* the format message itself gives as its example
C5_Witness ==
    /\ ret # None
    /\ Violations(arg[1]) = {}
    /\ arg[1].domain = <<"m", "e", "u", "s", "i", "t", "e", ".", "c", "o", "m", ".", "b", "r">>
    /\ ret[1] = <<MsgDomainFormat>>

\* C6: a configuration that violates exactly one constraint of the data model
\* gets a non-empty list holding a message about the violated field.
C6_SingleViolationReported ==
    (ret # None /\ Cardinality(Violations(arg[1])) = 1) =>
        \E k \in Violations(arg[1]) :
            Range(ret[1]) \cap MessagesAbout(k, arg[1]) # {}

\* C6's case: the empty database name as the only violation, and no message
C6_Witness ==
    /\ ret # None
    /\ Violations(arg[1]) = {"dbName.nonEmpty"}
    /\ ret[1] = <<>>

(***************************************************************************)
(* Properties of the wizard (Spec)                                         *)
(***************************************************************************)
\* the text stored in archive zip under path
archiveText(zip, path) == (CHOOSE f \in zip.files : f.path = path).text

\* the file entries placed directly in folder d of archive zip
filesIn(zip, d) ==
    {f \in zip.files : Len(f.path) = Len(d) + 1 /\ SubSeq(f.path, 1, Len(d)) = d}

\* C1: generateFiles only ever runs on a configuration for which validateForm
\* returns no violation.
C1_GenerateOnlyValidated ==
    lastOp = "nextStep: generateFiles" => validateForm(config) = <<>>

\* C1's case: generateFiles has run with workers = 1, typed on step 3
C1_Witness ==
    /\ lastOp = "nextStep: generateFiles"
    /\ config.workers = 1
    /\ validateForm(config) = <<MsgWorkers>>

\* C2: every archive handed to the browser is derived from one configuration:
\* its top-level folder and its file name carry the projectName of the
\* configuration its artifacts were rendered from, and its folder layout
\* matches that configuration's enableNginx.
C2_ArchiveFromSingleConfig ==
    emitted # None =>
        LET zip == emitted[1].zip
            compose == archiveText(zip, ComposePath)
        IN  /\ zip.root = compose.projectName
            /\ emitted[1].download = compose.projectName \o <<"-odoo-config.zip">>
            /\ (NginxDir \in zip.dirs) <=> compose.nginxService

\* C2's case: on the last step, an archive named after "bb" has been handed to
\* the browser with the artifacts rendered for "aa"
C2_Witness ==
    /\ emitted # None
    /\ currentStep = totalSteps
    /\ emitted[1].zip.root = <<"b", "b">>
    /\ emitted[1].download = <<"b", "b", "-odoo-config.zip">>
    /\ archiveText(emitted[1].zip, ComposePath).projectName = <<"a", "a">>

\* C7: whenever generated artifacts and the access-URL preview coexist, the
\* host port of the docker-compose mapping, HTTP_PORT of .env and the port of
\* the previewed URL are the same value.
C7_HttpPortConsistent ==
    (generatedFiles # None /\ dockerCommands # None) =>
        /\ generatedFiles[1][ComposePath].httpPortMapping[1]
               = generatedFiles[1][EnvPath].HTTP_PORT
        /\ generatedFiles[1][EnvPath].HTTP_PORT = dockerCommands[1].accessUrl[4]

\* C7's case: on the last step of a valid configuration, the artifacts carry
\* port 8069 and the preview port 8070
C7_Witness ==
    /\ currentStep = totalSteps
    /\ validateForm(config) = <<>>
    /\ generatedFiles # None
    /\ dockerCommands # None
    /\ generatedFiles[1][EnvPath].HTTP_PORT = <<"8", "0", "6", "9">>
    /\ dockerCommands[1].accessUrl[4] = <<"8", "0", "7", "0">>

\* C9: every folder of a produced archive holds at least one file, and a
\* folder in which no artifact was placed holds exactly one file, its
\* synthesized README.md.
C9_NoEmptyFolder ==
    emitted # None =>
        LET zip == emitted[1].zip
        IN  /\ \E f \in zip.files : Len(f.path) = 1
            /\ \A d \in zip.dirs :
                   /\ filesIn(zip, d) # {}
                   /\ {f \in filesIn(zip, d) : "readme" \notin DOMAIN f.text} = {}
                          => filesIn(zip, d) = {[path |-> d \o ReadmeName,
                                                 text |-> generateFolderReadme(d)]}

\* C9's case: an archive with nginx enabled has been downloaded, so that
\* logs/, addons/ and nginx/ssl/ had no artifact to hold
C9_Witness ==
    /\ emitted # None
    /\ {LogsDir, AddonsDir, SslDir} \subseteq emitted[1].zip.dirs

\* C11: nginx/nginx.conf is rendered, and the archive holds it in nginx/
\* together with the folders nginx/ and nginx/ssl/, if and only if enableNginx
\* is true in the configuration the artifacts were generated from; with
\* enableNginx false none of the three exists.
C11_NginxIffEnabled ==
    /\ generatedFiles # None =>
           (NginxConfPath \in DOMAIN generatedFiles[1]
               <=> generatedFiles[1][ComposePath].nginxService)
    /\ emitted # None =>
           LET zip == emitted[1].zip
               enabled == archiveText(zip, ComposePath).nginxService
               confs == {f \in zip.files : f.path = NginxConfPath}
           IN  /\ enabled => /\ {NginxDir, SslDir} \subseteq zip.dirs
                             /\ confs # {}
                             /\ confs \subseteq filesIn(zip, NginxDir)
               /\ ~enabled => /\ {NginxDir, SslDir} \cap zip.dirs = {}
                              /\ confs = {}

\* C11's case: an archive generated with nginx enabled has been downloaded
\* while the form has nginx switched off again
C11_Witness ==
    /\ emitted # None
    /\ archiveText(emitted[1].zip, ComposePath).nginxService
    /\ ~config.enableNginx

\* C12: when packaging fails (JSZip cannot be loaded, or the compression
\* rejects), an error message is shown, no archive is handed out, and the
\* artifact mapping and the manifest are left as they were, still stored for
\* copying and for a later download.
C12_PackagingFailureSurfaced ==
    [][lastOp' = "downloadAsZip: failed" =>
          /\ toast' = Toast(Msg("Erro ao gerar ZIP. Use os botoes individuais.", <<>>), "error")
          /\ emitted' = None
          /\ generatedFiles' = generatedFiles
          /\ zipStructure' = zipStructure
          /\ generatedFiles' # None
          /\ zipStructure' # None]_vars

\* C12's case: a packaging has just failed
C12_Witness ==
    /\ lastOp = "downloadAsZip: failed"
    /\ generatedFiles # None
    /\ downloads = <<>>

\* C13: while a packaging is suspended (awaiting the JSZip load or the
\* compression), no step changes what it reads when it resumes: the
\* configuration, the artifact mapping and the manifest after the JSZip load,
\* the project name of the configuration after the compression.
C13_NothingProceedsWhileSuspended ==
    [][/\ (\E i \in 1..Len(downloads) : downloads[i].pc = "loadJSZip") =>
              /\ config' = config
              /\ generatedFiles' = generatedFiles
              /\ zipStructure' = zipStructure
       /\ (\E i \in 1..Len(downloads) : downloads[i].pc = "generateAsync") =>
              config'.projectName = config.projectName]_vars

\* C13's case: the archive was assembled under the folder "aa", the project
\* name was changed to "bb" during the compression, and the download handed
\* out carries the new name
C13_Witness ==
    /\ emitted # None
    /\ emitted[1].zip.root = <<"a", "a">>
    /\ emitted[1].download = <<"b", "b", "-odoo-config.zip">>

\* C16 as stated: a session calls the generator exactly twice, in its
\* construction, once for dbPassword and once for adminPassword with length
\* 24 each; no later step calls it.
C16_ExactlyTwicePerSession ==
    passwordCalls = (IF lastOp = "init"
                     THEN << [field |-> "dbPassword", length |-> 24],
                             [field |-> "adminPassword", length |-> 24] >>
                     ELSE <<>>)

\* C16, amended: the construction of the wizard and every 'Gerar Senha' click
\* call the generator exactly twice, once for dbPassword and once for
\* adminPassword with length 24 each; no other step calls it.
C16_TwicePerGeneration ==
    passwordCalls = (IF lastOp \in {"init", "generatePasswords"}
                     THEN << [field |-> "dbPassword", length |-> 24],
                             [field |-> "adminPassword", length |-> 24] >>
                     ELSE <<>>)

\* C16's case: the passwords have just been regenerated on step 2 of a valid
\* configuration, before any generation of artifacts
C16_Witness ==
    /\ lastOp = "generatePasswords"
    /\ currentStep = 2
    /\ Len(passwordCalls) = 2
    /\ validateForm(config) = <<>>
    /\ generatedFiles = None

(***************************************************************************)
(* Properties of archive assembly (SpecAssemble)                           *)
(***************************************************************************)
\* the artifacts the manifest of configuration c expects
expectedArtifacts(c) == DOMAIN renderFiles(c)

C10_LogsAndAddonsPlaceholders ==
    (/\ ret # None
     /\ ret[1].outcome = "downloaded"
     /\ validateForm(arg[1].config) = <<>>
     /\ arg[1].generatedFiles = renderFiles(arg[1].config)) =>
        LET zip == ret[1].file.zip
        IN  \A d \in {LogsDir, AddonsDir} :
               /\ d \in zip.dirs
               /\ {f \in zip.files : SubSeq(f.path, 1, Len(d)) = d}
                      = {[path |-> d \o ReadmeName, text |-> generateFolderReadme(d)]}

\* C10's case: the complete artifact set of a valid configuration with redis
\* and nginx enabled has been assembled
C10_Witness ==
    /\ ret # None
    /\ ret[1].outcome = "downloaded"
    /\ validateForm(arg[1].config) = <<>>
    /\ arg[1].generatedFiles = renderFiles(arg[1].config)
    /\ arg[1].config.enableRedis
    /\ arg[1].config.enableNginx

(***************************************************************************)
(* Properties of generateSecurePassword (SpecPassword)                     *)
(***************************************************************************)
\* the declared alphabet: A-Z, a-z, 0-9 and !@#$%^&*
Alphabet == Upper \cup Lower \cup Digit \cup {"!", "@", "#", "$", "%", "^", "&", "*"}

\* C14: generateSecurePassword(n) returns exactly n characters, each of the
\* declared 70-character alphabet, for n in {1, 24, 128} and every value of the
\* random source, with the crypto API and with the fallback.
C14_LengthAndAlphabet ==
    /\ Cardinality(Alphabet) = 70
    /\ ret # None =>
           /\ Len(ret[1].password) = arg[1].length
           /\ \A i \in 1..Len(ret[1].password) : ret[1].password[i] \in Alphabet

\* C14's case: 128 characters from the crypto API, the first byte being 255
C14_Witness ==
    /\ ret # None
    /\ arg[1].crypto
    /\ arg[1].length = 128
    /\ arg[1].random[1] = 255
    /\ Len(ret[1].password) = 128

\* C15: without the crypto API generateSecurePassword does not fail: it warns
\* and returns a string of the requested length over the same alphabet.
C15_FallbackWarnsAndReturns ==
    /\ (ret = None /\ ~arg[1].crypto) => ENABLED CallGenerateSecurePassword
    /\ (ret # None /\ ~arg[1].crypto) =>
           /\ ret[1].warned
           /\ Len(ret[1].password) = arg[1].length
           /\ \A i \in 1..Len(ret[1].password) : ret[1].password[i] \in Range(charset)

\* C15's case: 24 characters from the fallback, the last index being the
\* largest one
C15_Witness ==
    /\ ret # None
    /\ ~arg[1].crypto
    /\ arg[1].length = 24
    /\ arg[1].random[24] = 69
    /\ ret[1].warned

(***************************************************************************)
(* Properties of the renderers (SpecRender)                                *)
(***************************************************************************)
\* record r without the fields in S
Without(r, S) == [f \in DOMAIN r \ S |-> r[f]]

\* the artifacts of m other than those at the paths in S
Others(m, S) == [p \in DOMAIN m \ S |-> m[p]]

\* C17 as stated: two configurations that differ only in enableRedis render
\* outputs that differ in exactly the cache service block of
\* docker-compose.yml and the cache section of config/odoo.conf; every other
\* part of every artifact and the archive layout are the same.
C17_RedisAddsServiceAndSection ==
    ret # None =>
        LET c == arg[1]
            a == ret[1][1]
            b == generateFiles([c EXCEPT !.enableRedis = ~c.enableRedis])
            F == a.generatedFiles
            G == b.generatedFiles
        IN  /\ a.zipStructure = b.zipStructure
            /\ DOMAIN F = DOMAIN G
            /\ Others(F, {ComposePath, OdooConfPath}) = Others(G, {ComposePath, OdooConfPath})
            /\ F[ComposePath].redisService # G[ComposePath].redisService
            /\ Without(F[ComposePath], {"redisService"}) = Without(G[ComposePath], {"redisService"})
            /\ F[OdooConfPath].redisSection # G[OdooConfPath].redisSection
            /\ Without(F[OdooConfPath], {"redisSection"}) = Without(G[OdooConfPath], {"redisSection"})

\* C17, amended: they differ in exactly the cache service block and the
\* redis_data volume of docker-compose.yml, the cache section of
\* config/odoo.conf and the ENABLE_REDIS line of .env; every other part of
\* every artifact and the archive layout are the same.
C17_RedisDifference ==
    ret # None =>
        LET c == arg[1]
            a == ret[1][1]
            b == generateFiles([c EXCEPT !.enableRedis = ~c.enableRedis])
            F == a.generatedFiles
            G == b.generatedFiles
            touchedPaths == {ComposePath, OdooConfPath, EnvPath}
        IN  /\ a.zipStructure = b.zipStructure
            /\ DOMAIN F = DOMAIN G
            /\ Others(F, touchedPaths) = Others(G, touchedPaths)
            /\ F[ComposePath].redisService = c.enableRedis
            /\ G[ComposePath].redisService = ~c.enableRedis
            /\ F[ComposePath].redisVolume = c.enableRedis
            /\ G[ComposePath].redisVolume = ~c.enableRedis
            /\ Without(F[ComposePath], {"redisService", "redisVolume"})
                   = Without(G[ComposePath], {"redisService", "redisVolume"})
            /\ F[OdooConfPath].redisSection = c.enableRedis
            /\ G[OdooConfPath].redisSection = ~c.enableRedis
            /\ Without(F[OdooConfPath], {"redisSection"}) = Without(G[OdooConfPath], {"redisSection"})
            /\ F[EnvPath].ENABLE_REDIS = booleanToString(c.enableRedis)
            /\ G[EnvPath].ENABLE_REDIS = booleanToString(~c.enableRedis)
            /\ Without(F[EnvPath], {"ENABLE_REDIS"}) = Without(G[EnvPath], {"ENABLE_REDIS"})

\* C17's case: a configuration with redis and nginx enabled has been rendered
C17_Witness ==
    /\ ret # None
    /\ arg[1].enableRedis
    /\ arg[1].enableNginx
    /\ ret[1][1].generatedFiles[ComposePath].redisVolume

\* C18 as stated: two configurations that differ only in enableNginx render
\* outputs that differ in exactly the presence of nginx/nginx.conf and of the
\* nginx/ and nginx/ssl/ folders; nothing else in the artifacts or the
\* archive changes.
C18_NginxAddsArtifactAndFolders ==
    ret # None =>
        LET c == arg[1]
            a == ret[1][1]
            b == generateFiles([c EXCEPT !.enableNginx = ~c.enableNginx])
            F == a.generatedFiles
            G == b.generatedFiles
            Z == a.zipStructure
            Y == b.zipStructure
        IN  /\ (NginxConfPath \in DOMAIN F) = c.enableNginx
            /\ (NginxConfPath \in DOMAIN G) = ~c.enableNginx
            /\ Others(F, {NginxConfPath}) = Others(G, {NginxConfPath})
            /\ Z.root = Y.root
            /\ ({NginxDir, SslDir} \subseteq DOMAIN Z.folders) = c.enableNginx
            /\ ({NginxDir, SslDir} \subseteq DOMAIN Y.folders) = ~c.enableNginx
            /\ Others(Z.folders, {NginxDir, SslDir}) = Others(Y.folders, {NginxDir, SslDir})

\* C18, amended: they differ in exactly the presence of nginx/nginx.conf and
\* of the nginx/ and nginx/ssl/ folders, the proxy service block of
\* docker-compose.yml, the ENABLE_NGINX line of .env and the folders that
\* setup.sh creates; nothing else in the artifacts or the archive changes.
C18_NginxDifference ==
    ret # None =>
        LET c == arg[1]
            a == ret[1][1]
            b == generateFiles([c EXCEPT !.enableNginx = ~c.enableNginx])
            F == a.generatedFiles
            G == b.generatedFiles
            Z == a.zipStructure
            Y == b.zipStructure
            touchedPaths == {NginxConfPath, ComposePath, EnvPath, SetupPath}
        IN  /\ (NginxConfPath \in DOMAIN F) = c.enableNginx
            /\ (NginxConfPath \in DOMAIN G) = ~c.enableNginx
            /\ Others(F, touchedPaths) = Others(G, touchedPaths)
            /\ F[ComposePath].nginxService = c.enableNginx
            /\ G[ComposePath].nginxService = ~c.enableNginx
            /\ Without(F[ComposePath], {"nginxService"}) = Without(G[ComposePath], {"nginxService"})
            /\ F[EnvPath].ENABLE_NGINX = booleanToString(c.enableNginx)
            /\ G[EnvPath].ENABLE_NGINX = booleanToString(~c.enableNginx)
            /\ Without(F[EnvPath], {"ENABLE_NGINX"}) = Without(G[EnvPath], {"ENABLE_NGINX"})
            /\ F[SetupPath].nginxDirs = c.enableNginx
            /\ G[SetupPath].nginxDirs = ~c.enableNginx
            /\ Without(F[SetupPath], {"nginxDirs"}) = Without(G[SetupPath], {"nginxDirs"})
            /\ Z.root = Y.root
            /\ ({NginxDir, SslDir} \subseteq DOMAIN Z.folders) = c.enableNginx
            /\ ({NginxDir, SslDir} \subseteq DOMAIN Y.folders) = ~c.enableNginx
            /\ (DOMAIN Z.folders \cap {NginxDir, SslDir} # {}) = c.enableNginx
            /\ (DOMAIN Y.folders \cap {NginxDir, SslDir} # {}) = ~c.enableNginx
            /\ Others(Z.folders, {NginxDir, SslDir}) = Others(Y.folders, {NginxDir, SslDir})

\* C18's case: a configuration with nginx enabled has been rendered, with
\* nginx/nginx.conf among the artifacts and the two folders in the layout
C18_Witness ==
    /\ ret # None
    /\ arg[1].enableNginx
    /\ NginxConfPath \in DOMAIN ret[1][1].generatedFiles
    /\ {NginxDir, SslDir} \subseteq DOMAIN ret[1][1].zipStructure.folders
    /\ ret[1][1].generatedFiles[SetupPath].nginxDirs

C20_MostRecentRunOnly ==
    lastOp = "nextStep: generateFiles" =>
        /\ generatedFiles # None
        /\ zipStructure # None
        /\ LET F == generatedFiles[1]
               Z == zipStructure[1]
           IN  /\ DOMAIN F = {ComposePath, EnvPath, OdooConfPath, SetupPath, GitignorePath}
                                \cup (IF config.enableNginx THEN {NginxConfPath} ELSE {})
               /\ F[ComposePath] = generateDockerCompose(config)
               /\ F[EnvPath] = generateEnvFile(config)
               /\ F[OdooConfPath] = generateOdooConf(config)
               /\ F[SetupPath] = generateSetupScript(config)
               /\ F[GitignorePath] = generateGitignore
               /\ config.enableNginx => F[NginxConfPath] = generateNginxConf(config)
               /\ DOMAIN Z.folders = {ConfigDir, LogsDir, AddonsDir}
                                        \cup (IF config.enableNginx THEN {NginxDir, SslDir} ELSE {})
               /\ Z = prepareZipData(config)

\* C20's case: generateFiles has just run with nginx disabled while the
\* archive of an earlier run, with nginx/nginx.conf in it, is still being
\* compressed
C20_Witness ==
    /\ lastOp = "nextStep: generateFiles"
    /\ ~config.enableNginx
    /\ \E i \in 1..Len(downloads) :
          /\ downloads[i].zip # None
          /\ filesIn(downloads[i].zip[1], NginxDir) # {}

(***************************************************************************)
(* Properties of the download (SpecLive)                                   *)
(***************************************************************************)
\* C21: every started archive download eventually ends, and it ends in
\* exactly one of two ways: an archive with every rendered artifact handed to
\* the user, or an error shown and no archive; the record of the ended
\* download is gone.
C21_DownloadEnds ==
    /\ \A id \in 1..MaxDownloads :
          (pcOf(downloads, id) # "returned") ~> (pcOf(downloads, id) = "returned")
    /\ [][Len(downloads') < Len(downloads) =>
            /\ Len(downloads') = Len(downloads) - 1
            /\ toast' # None
            /\ IF lastOp' = "downloadAsZip: downloaded"
               THEN /\ emitted' # None
                    /\ {ComposePath, EnvPath, OdooConfPath, SetupPath, GitignorePath}
                          \subseteq {f.path : f \in emitted'[1].zip.files}
                    /\ toast'[1].type = "success"
               ELSE /\ lastOp' = "downloadAsZip: failed"
                    /\ emitted' = None
                    /\ toast'[1].type = "error"]_vars

\* C21's case: a download that had to load JSZip first has ended with an
\* archive handed out
C21_Witness ==
    /\ lastOp = "downloadAsZip: downloaded"
    /\ JSZip
    /\ downloads = <<>>
    /\ emitted # None

(***************************************************************************)
(* Properties of the rendered memory limits (SpecRender)                   *)
(***************************************************************************)
\* the decimal text s times k, by long multiplication from the last digit
RECURSIVE DecimalTimes(_, _, _)
DecimalTimes(s, k, carry) ==
    IF s = <<>>
    THEN IF carry = 0 THEN <<>> ELSE numberToString(carry)
    ELSE LET d == CHOOSE x \in 0..9 : Digits[x + 1] = s[Len(s)]
             p == d * k + carry
         IN  DecimalTimes(SubSeq(s, 1, Len(s) - 1), k, p \div 10) \o <<Digits[(p % 10) + 1]>>

\* n x 1024^3 as decimal text
Bytes(n) ==
    IF n = 0 THEN <<"0">>
    ELSE DecimalTimes(DecimalTimes(DecimalTimes(numberToString(n), 1024, 0), 1024, 0), 1024, 0)

\* floor(n x 0.8): the greatest integer k with 5k <= 4n
FloorOfFourFifths(n) == CHOOSE k \in 0..n : 5 * k <= 4 * n /\ 4 * n < 5 * (k + 1)

\* s < t or s = t for decimal texts without leading zeros
DecimalLeq(s, t) ==
    \/ Len(s) < Len(t)
    \/ /\ Len(s) = Len(t)
       /\ \/ s = t
          \/ \E i \in 1..Len(s) :
                /\ SubSeq(s, 1, i - 1) = SubSeq(t, 1, i - 1)
                /\ (CHOOSE x \in 0..9 : Digits[x + 1] = s[i])
                      < (CHOOSE x \in 0..9 : Digits[x + 1] = t[i])

\* C22: in config/odoo.conf, limit_memory_hard is memoryLimit x 1024^3 and
\* limit_memory_soft is floor(memoryLimit x 0.8) x 1024^3, the fraction being
\* floored on the GB value before the conversion to bytes.
C22_MemoryLimitsInBytes ==
    ret # None =>
        LET n == arg[1].memoryLimit
            conf == ret[1][1].generatedFiles[OdooConfPath]
        IN  /\ conf.limit_memory_hard = Bytes(n)
            /\ conf.limit_memory_soft = Bytes(FloorOfFourFifths(n))

\* C22's case: memoryLimit = 3 has been rendered: 3 GB hard, and floor(2.4) = 2
\* GB soft
C22_Witness ==
    /\ ret # None
    /\ arg[1].memoryLimit = 3
    /\ ret[1][1].generatedFiles[OdooConfPath].limit_memory_hard
          = <<"3", "2", "2", "1", "2", "2", "5", "4", "7", "2">>
    /\ ret[1][1].generatedFiles[OdooConfPath].limit_memory_soft
          = <<"2", "1", "4", "7", "4", "8", "3", "6", "4", "8">>

\* C28: for every memoryLimit >= 1, limit_memory_soft of config/odoo.conf is
\* strictly positive and not greater than limit_memory_hard, and the memory
\* reservation of docker-compose.yml is not greater than its memory limit.
C28_SoftLimitsUsable ==
    (ret # None /\ arg[1].memoryLimit >= 1) =>
        LET conf == ret[1][1].generatedFiles[OdooConfPath]
            compose == ret[1][1].generatedFiles[ComposePath]
            G(text) == SubSeq(text, 1, Len(text) - 1)
        IN  /\ conf.limit_memory_soft # <<"0">>
            /\ DecimalLeq(conf.limit_memory_soft, conf.limit_memory_hard)
            /\ compose.memoryLimit[Len(compose.memoryLimit)] = "G"
            /\ compose.memoryReservation[Len(compose.memoryReservation)] = "G"
            /\ DecimalLeq(G(compose.memoryReservation), G(compose.memoryLimit))

\* C28's case: memoryLimit = 1 has been rendered, with limit_memory_soft = 0
C28_Witness ==
    /\ ret # None
    /\ arg[1].memoryLimit = 1
    /\ ret[1][1].generatedFiles[OdooConfPath].limit_memory_soft = <<"0">>
    /\ ret[1][1].generatedFiles[ComposePath].memoryReservation = <<"1", "G">>

(***************************************************************************)
(* Properties of the navigation (Spec)                                     *)
(***************************************************************************)
\* the step was a call of nextStep
NextStepCalled ==
    lastOp' \in {"nextStep: rejected", "nextStep: advanced", "nextStep: generateFiles"}

C24_WorkerCountMessage ==
    (ret # None /\ CriticalPresent(arg[1])) =>
        (MsgWorkers \in Range(ret[1])) = (arg[1].workers = 1)

\* C24's case: workers = 1 among otherwise valid fields, and validateForm has
\* answered with the worker-count message alone
C24_Witness ==
    /\ ret # None
    /\ arg[1].workers = 1
    /\ ret[1] = <<MsgWorkers>>

\* C25: with the critical fields present, every projectName that is not made
\* of lowercase letters and digits with hyphens in interior positions only,
\* of any length including one character, gets the pattern message, and every
\* reserved name gets the reserved-word message.
C25_NamePatternAndReserved ==
    (ret # None /\ CriticalPresent(arg[1])) =>
        LET name == arg[1].projectName
        IN  /\ ~IsIdentifier(name) => MsgProjectNamePattern \in Range(ret[1])
            /\ name \in reservedWords => MsgReserved(name) \in Range(ret[1])

\* C25's case: the one-character name "-" among otherwise valid fields, and
\* validateForm has answered with no message at all
C25_Witness ==
    /\ ret # None
    /\ arg[1].projectName = <<"-">>
    /\ CriticalPresent(arg[1])
    /\ ret[1] = <<>>

(***************************************************************************)
(* Properties of the order of the pipeline (Spec)                          *)
(***************************************************************************)
\* C26: archive assembly never happens before the artifacts have been
\* rendered: no download is pending or handed out while nothing is generated,
\* and downloadAsZip called while no generateFiles has completed produces no
\* archive, shows an error and leaves the wizard's state as it was.
C26_NoAssemblyBeforeRendering ==
    [][/\ (downloads' # <<>> \/ emitted' # None) => generatedFiles' # None
       /\ (/\ generatedFiles = None
           /\ lastOp' \in {"downloadAsZip: started", "downloadAsZip: nothing generated"})
             => /\ lastOp' = "downloadAsZip: nothing generated"
                /\ toast' = Toast(Msg("Nenhum arquivo foi gerado ainda!", <<>>), "error")
                /\ emitted' = None
                /\ UNCHANGED <<currentStep, config, touched, generatedFiles, zipStructure,
                               dockerCommands, JSZip, downloads>>]_vars

\* C26's case: downloadAsZip has been called on the last step before any
\* generateFiles
C26_Witness ==
    /\ lastOp = "downloadAsZip: nothing generated"
    /\ currentStep = totalSteps
    /\ generatedFiles = None
    /\ downloads = <<>>
    /\ emitted = None

\* C27: currentStep stays within 1..totalSteps: previousStep on step 1 and
\* nextStep on the last step leave it unchanged, every other navigation that
\* is not refused changes it by exactly one, and nothing else changes it.
C27_StepWithinBounds ==
    [][/\ currentStep' \in 1..totalSteps
       /\ lastOp' = "previousStep" =>
             currentStep' = (IF currentStep = 1 THEN 1 ELSE currentStep - 1)
       /\ lastOp' = "nextStep: advanced" =>
             (currentStep < totalSteps /\ currentStep' = currentStep + 1)
       /\ lastOp' = "nextStep: generateFiles" =>
             (currentStep = totalSteps /\ currentStep' = currentStep)
       /\ lastOp' \notin {"previousStep", "nextStep: advanced"} =>
             currentStep' = currentStep]_vars

\* C27's case: the wizard has reached the last step, generated there, and
\* previousStep has brought it back to step 1
C27_Witness ==
    /\ lastOp = "previousStep"
    /\ currentStep = 1
    /\ generatedFiles # None

(***************************************************************************)
(* Properties of generated passwords under validateForm (SpecPassword)     *)
(***************************************************************************)
\* the messages of validateForm on passwords that are present
PasswordRuleMessages ==
    {MsgDbPasswordLength, MsgAdminPasswordLength, MsgPasswordSpaces, MsgPasswordDigits}

\* C29: every password that generateSecurePassword(24) produces passes the
\* password rules of validateForm: used as dbPassword or as adminPassword it
\* triggers neither the minimum-length, nor the white-space, nor the
\* all-digit message, whatever the random source yields.
C29_GeneratedPasswordValid ==
    (ret # None /\ arg[1].length = DefaultPasswordLength) =>
        LET pw == ret[1].password
        IN  /\ Range(validateForm([BaseConfig EXCEPT !.dbPassword = pw]))
                  \cap PasswordRuleMessages = {}
            /\ Range(validateForm([BaseConfig EXCEPT !.adminPassword = pw]))
                  \cap PasswordRuleMessages = {}

\* C29's case: the crypto API has yielded 24 bytes of value 52, the password
\* is 24 times the digit 0, and validateForm answers that passwords cannot be
\* digits only
C29_Witness ==
    /\ ret # None
    /\ arg[1].crypto
    /\ arg[1].length = DefaultPasswordLength
    /\ \A i \in 1..DefaultPasswordLength : arg[1].random[i] = 52
    /\ ret[1].password = [i \in 1..DefaultPasswordLength |-> "0"]
    /\ validateForm([BaseConfig EXCEPT !.dbPassword = ret[1].password]) = <<MsgPasswordDigits>>

(***************************************************************************)
(* Properties of the stored manifest and mapping (Spec)                    *)
(***************************************************************************)
\* the files manifest z lists: the root files, and the files of each folder
\* prefixed by the folder's path
manifestFiles(z) ==
    Range(z.root) \cup UNION {{d \o f : f \in Range(z.folders[d])} : d \in DOMAIN z.folders}

\* C30: whenever a generated artifact mapping exists, the stored manifest and
\* the mapping agree: every file the manifest lists is a key of the mapping
\* and every key of the mapping is listed by the manifest.
C30_ManifestAndMappingAgree ==
    generatedFiles # None =>
        /\ zipStructure # None
        /\ manifestFiles(zipStructure[1]) = DOMAIN generatedFiles[1]

\* C30's case: a generation without nginx is stored, after the configuration
\* has been changed to enable nginx on the way back through the wizard
C30_Witness ==
    /\ generatedFiles # None
    /\ NginxConfPath \notin DOMAIN generatedFiles[1]
    /\ config.enableNginx
    /\ manifestFiles(zipStructure[1])
          = {ComposePath, EnvPath, GitignorePath, SetupPath, OdooConfPath}

=============================================================================
